---- MODULE Spec2Model ----
(***************************************************************************)
(* A model of the query-graph library (src/src/lib.rs): Graph iterations,  *)
(* their shared node maps, the OnceLock cells, Graph::query, Graph::resolve,*)
(* Graph::increment and the QueryResolver context that records edges.      *)
(* Every thread is a stack of calls; each action is one step of one call   *)
(* that reads or writes shared state.                                      *)
(***************************************************************************)
EXTENDS Integers, Sequences, FiniteSets, TLC

\* ------------------------------------------------------------------ bounds
\* Number of Graph iterations that exist at most (one Graph::new, the rest
\* made by Graph::increment), and the number that exist at most when the
\* client threads query concurrently with arbitrary increments.
MaxGraphs == 3
MaxChain == 2
\* Client threads that call Graph::query.
NumClients == 2
\* Pool threads that pick up par_iter items next to the calling thread.
NumHelpers == 1
\* Calls of Graph::query the client threads make in all when they run
\* concurrently, and when one client thread makes all calls.
MaxCalls == 2
SeqCalls == 3
\* Calls of Graph::query made in all when sibling iterations are queried: one
\* resolves the first iteration, the others go to its successors.
SibCalls == 3

\* ------------------------------------------------------------------ inputs
\* The keys of scenario S1: Foo -> Bar -> FooBar(0), FooBar(1).
Keys == {"Foo", "Bar", "FooBar0", "FooBar1"}

\* A resolver (an implementation of ResolveQuery) is described by the state
\* it carries: the value of the leaf FooBar(1), whether Bar issues its
\* sub-queries from a par_iter (as GetSemanticModel does in the example) or
\* one after the other, and the shape of its sub-queries: "S1" is
\* Foo -> Bar -> leaves; in "Rev" Bar asks for Foo and Foo is a leaf.  Both
\* shapes are acyclic.
Shapes == {"S1", "Rev"}
Resolvers == [leaf : 1..3, par : BOOLEAN, shape : Shapes]

\* The sub-queries resolver r makes for key k, in program order.  In shape
\* S1 Foo asks for Bar twice.
Deps(r, k) ==
  CASE r.shape = "S1" /\ k = "Foo" -> <<"Bar", "Bar">>
    [] r.shape = "S1" /\ k = "Bar" -> <<"FooBar0", "FooBar1">>
    [] r.shape = "Rev" /\ k = "Bar" -> <<"Foo">>
    [] OTHER -> <<>>

\* Whether resolver r issues the sub-queries of k from parallel workers.
IsPar(r, k) == r.par /\ r.shape = "S1" /\ k = "Bar"

\* The result resolver r returns for k, given the sum of the results its
\* sub-queries returned.  Bar keeps the parity of its leaves only, so a leaf
\* can change without Bar's result changing.
Compute(r, k, acc) ==
  CASE k = "Foo" -> 10 + acc
    [] k = "Bar" -> acc % 2
    [] k = "FooBar1" -> r.leaf
    [] OTHER -> 1

\* ------------------------------------------------------------------- state
VARIABLES
  graphs,   \* the Graph iterations: <<[old, resolver, had]>>; graph g owns map g
            \* as `new`; had (history): the keys `old` held a node for at creation
  cells,    \* cells[m][k]: the OnceLock of key k in map m, or absent
  stack,    \* stack[t]: the calls thread t is in, innermost last
  ctx,      \* ctx[g][k]: the locals of the running resolve(k) of graph g
  hist,     \* history: what happened for (g, k)
  calls     \* history: the number of client calls of query made so far

vars == <<graphs, cells, stack, ctx, hist, calls>>

Graphs == 1..MaxGraphs
Live == 1..Len(graphs)
Clients == 1..NumClients
Helpers == (NumClients + 1)..(NumClients + NumHelpers)
Tasks == Clients \cup Helpers

\* A key's entry in a map: no entry; an OnceLock nobody initializes; an
\* OnceLock whose initializer runs; an OnceLock holding a Node.
NoCell == [st |-> "absent", result |-> 0, changed |-> FALSE, edges_from |-> {}]

NoNode == [result |-> 0, changed |-> FALSE, edges_from |-> {}]

NoCtx == [phase |-> "idle", case |-> "-", todo |-> <<>>, pending |-> 0,
          any_changed |-> FALSE, edges_from |-> {}, acc |-> 0, node |-> NoNode]

NoHist == [invoked |-> <<>>, case |-> "-", queried |-> {}, returned |-> {},
           pub_old_init |-> FALSE, pub_old_result |-> 0]

RECURSIVE SetToSeq(_)
SetToSeq(S) ==
  IF S = {} THEN <<>>
  ELSE LET x == CHOOSE y \in S : TRUE IN <<x>> \o SetToSeq(S \ {x})

RemoveAt(s, i) == SubSeq(s, 1, i - 1) \o SubSeq(s, i + 1, Len(s))

Top(t) == stack[t][Len(stack[t])]
SetTop(t, f) == [stack EXCEPT ![t][Len(stack[t])] = f]
Pop(t) == [stack EXCEPT ![t] = SubSeq(@, 1, Len(@) - 1)]
Push(t, f) == [stack EXCEPT ![t] = Append(@, f)]

Frame(g, k, role, pk) ==
  [g |-> g, k |-> k, pc |-> "get_node", role |-> role, pk |-> pk, tmp |-> {}]

\* ------------------------------------------------------- the map and cells
\* ConcurrentMap::get, then OnceLock::get: the entry of k in map m as a
\* reader sees it.  Map 0 is the empty `old` map Graph::new creates.
MapGet(m, k) == IF m = 0 THEN NoCell ELSE cells[m][k]

\* ConcurrentMap::get_or_insert(k, || OnceLock::default()): the maps after it.
MapGetOrInsert(m, k) ==
  [cells EXCEPT ![m][k] = IF @.st = "absent" THEN [@ EXCEPT !.st = "empty"] ELSE @]

\* (mutant) The old map is a copy taken when increment ran.
OldCell_Snapshot(g, k) ==
  IF k \in graphs[g].had THEN MapGet(graphs[g].old, k) ELSE NoCell

\* self.old.get(&q) and old.get() of resolve.
OldCell(g, k) == MapGet(graphs[g].old, k)

\* (mutant) get_node works on the previous map when there is one.
NewMap_Old(g) == IF graphs[g].old = 0 THEN g ELSE graphs[g].old

\* The map whose cells get_node and query use: self.new.
NewMap(g) == g

\* ------------------------------------------------------------ Graph::resolve
\* (mutant) Every initialized old node is treated as a root and recomputed.
ResolveCase_AlwaysRoot(old) ==
  IF old.st = "absent" THEN "A"
  ELSE IF old.st # "init" THEN "B"
  ELSE "C"

\* (mutant) An old node without edges is validated like any other.
ResolveCase_NoRoot(old) ==
  IF old.st = "absent" THEN "A"
  ELSE IF old.st # "init" THEN "B"
  ELSE "DE"

\* Which branch of resolve the old entry selects.
ResolveCase(old) ==
  IF old.st = "absent" THEN "A"
  ELSE IF old.st # "init" THEN "B"
  ELSE IF Cardinality(old.edges_from) = 0 THEN "C"
  ELSE "DE"

\* (mutant) A recomputed node is flagged changed without comparing results.
Changed_Always(case, result, old) == case # "A"

\* (mutant) A node without an old entry is flagged changed.
Changed_NewFlagged(case, result, old) ==
  CASE case = "A" -> TRUE
    [] case = "B" -> IF old.st = "init" THEN result # old.result ELSE TRUE
    [] OTHER -> result # old.result

\* (mutant) The old entry is not read again after the resolver returned.
Changed_NoRecheck(case, result, old) ==
  CASE case = "A" -> FALSE
    [] case = "B" -> TRUE
    [] OTHER -> result # old.result

\* The `changed` field of a node built from a resolver's result; `old` is
\* the old entry as read when the node is built.
Changed(case, result, old) ==
  CASE case = "A" -> FALSE
    [] case = "B" -> IF old.st = "init" THEN result # old.result ELSE TRUE
    [] OTHER -> result # old.result

\* The node built after the resolver returned.
ResolvedNode(case, result, edges, old) ==
  [result |-> result, changed |-> Changed(case, result, old), edges_from |-> edges]

\* (mutant) The cloned node is flagged changed.
ReusedNode_Flagged(old) ==
  [result |-> old.result, changed |-> TRUE, edges_from |-> old.edges_from]

\* The node built when no parent changed: the old result is cloned.
ReusedNode(old) ==
  [result |-> old.result, changed |-> FALSE, edges_from |-> old.edges_from]

\* (mutant) The closure answers !node.changed.
AnyFold_Negated(any, changed) == any \/ ~changed

\* (mutant) The answer is that of the parent checked last.
AnyFold_Last(any, changed) == changed

\* par_iter().any(..): the fold of one parent's `changed` into the answer.
AnyFold(any, changed) == any \/ changed

\* QueryResolver::new and the call of self.resolver.resolve: the locals of a
\* resolver invocation that has made no sub-query yet.
Invocation(g, k, case) ==
  [NoCtx EXCEPT !.phase = "run", !.case = case, !.todo = Deps(graphs[g].resolver, k)]

\* (mutant) Only one of the old node's parents is validated.
Validation_OneParent(old) ==
  [NoCtx EXCEPT !.phase = "validate", !.case = "DE",
                !.todo = <<CHOOSE p \in old.edges_from : TRUE>>]

\* The locals of the validation of the old node's parents.
Validation(old) ==
  [NoCtx EXCEPT !.phase = "validate", !.case = "DE", !.todo = SetToSeq(old.edges_from)]

\* (mutant) The edge set is replaced by the key instead of extended.
ContextInsert_Overwrite(edges, q) == {q}

\* QueryResolver::query: edges_from.borrow_mut().insert(q) on the set as the
\* caller read it.
ContextInsert(edges, q) == edges \cup {q}

\* (mutant) Parents and sub-queries are demanded on the previous iteration.
DemandGraph_Old(g) == IF graphs[g].old = 0 THEN g ELSE graphs[g].old

\* The graph on which a resolve of graph g demands parents and sub-queries.
DemandGraph(g) == g

\* (mutant) resolve runs for every caller that finds no node yet.
RunsResolve_Unguarded(st) == st \in {"empty", "running"}

\* (mutant) query answers from the old map when it holds a node for q.
QueryResult_Stale(g, q, n) ==
  IF OldCell(g, q).st = "init" THEN OldCell(g, q).result ELSE n.result

\* (mutant) Every caller that finds the cell without a node runs the closure.
RunsResolve_Racy(st) == st # "init"

\* OnceLock::get_or_init runs its closure, self.resolve(q), for a caller that
\* finds the cell in state st: only when the cell is empty and no other
\* caller's closure is running.
RunsResolve(st) == st = "empty"

\* What query(q) of graph g returns once it has the node n of q.
QueryResult(g, q, n) == n.result

\* ----------------------------------------------------------------- actions
\* A client thread calls graph.query(k).
ClientQuery(t, g, k, n) ==
  /\ stack[t] = <<>>
  /\ \A u \in Clients : u < t => stack[u] # <<>>
  /\ g \in Live
  /\ calls < n
  /\ calls' = calls + 1
  /\ stack' = Push(t, Frame(g, k, "client", "-"))
  /\ UNCHANGED <<graphs, cells, ctx, hist>>

\* graph.increment(resolver); n: the iterations that exist at most.
Increment(g, r, n) ==
  /\ g \in Live
  /\ Len(graphs) < n
  /\ graphs' = Append(graphs, [old |-> NewMap(g), resolver |-> r,
                                had |-> {k \in Keys : cells[NewMap(g)][k].st = "init"}])
  /\ UNCHANGED <<cells, stack, ctx, hist, calls>>

\* get_node: self.new.get_or_insert(q, ..).
GetNode(t) ==
  /\ stack[t] # <<>>
  /\ Top(t).pc = "get_node"
  /\ cells' = MapGetOrInsert(NewMap(Top(t).g), Top(t).k)
  /\ stack' = SetTop(t, [Top(t) EXCEPT !.pc = "get_or_init"])
  /\ UNCHANGED <<graphs, ctx, hist, calls>>

\* The caller of get_or_init has the node n: query returns n.result to a
\* client or to QueryResolver::query, the validation closure reads n.changed.
Return(t, n, cbase, hbase) ==
  LET f == Top(t) IN
  /\ hist' = IF f.role = "val" THEN hbase
             ELSE [hbase EXCEPT ![f.g][f.k].returned = @ \cup {QueryResult(f.g, f.k, n)}]
  /\ CASE f.role = "client" -> stack' = Pop(t) /\ ctx' = cbase
       [] f.role = "val" ->
            /\ stack' = Pop(t)
            /\ ctx' = [cbase EXCEPT ![f.g][f.pk].any_changed = AnyFold(@, n.changed),
                                    ![f.g][f.pk].pending = @ - 1]
       [] OTHER ->
            /\ stack' = SetTop(t, [f EXCEPT !.pc = "borrow_mut"])
            /\ ctx' = cbase

\* node.get_or_init(|| self.resolve(q)): a set cell is read; an empty cell is
\* taken and its initializer starts; while another initializer runs the
\* caller waits.
GetOrInit(t) ==
  /\ stack[t] # <<>>
  /\ Top(t).pc = "get_or_init"
  /\ LET f == Top(t)
         c == cells[NewMap(f.g)][f.k]
     IN
     /\ c.st = "init" \/ RunsResolve(c.st)
     /\ IF c.st = "init"
        THEN /\ Return(t, c, ctx, hist)
             /\ UNCHANGED <<graphs, cells, calls>>
        ELSE /\ cells' = [cells EXCEPT ![NewMap(f.g)][f.k].st = "running"]
             /\ stack' = SetTop(t, [f EXCEPT !.pc = "resolve"])
             /\ UNCHANGED <<graphs, ctx, hist, calls>>

\* resolve: look the key up in the old map and take the branch: invoke the
\* resolver with a fresh context (no old node, old node unresolved, root
\* node), or start validating the old node's parents.
Resolve(t) ==
  /\ stack[t] # <<>>
  /\ Top(t).pc = "resolve"
  /\ LET f == Top(t)
         old == OldCell(f.g, f.k)
         case == ResolveCase(old)
     IN
     IF case = "DE"
     THEN /\ ctx' = [ctx EXCEPT ![f.g][f.k] = Validation(old)]
          /\ hist' = [hist EXCEPT ![f.g][f.k].case = case]
          /\ stack' = SetTop(t, [f EXCEPT !.pc = "validate"])
          /\ UNCHANGED <<graphs, cells, calls>>
     ELSE /\ ctx' = [ctx EXCEPT ![f.g][f.k] = Invocation(f.g, f.k, case)]
          /\ hist' = [hist EXCEPT ![f.g][f.k].case = case,
                                  ![f.g][f.k].invoked = Append(@, graphs[f.g].resolver)]
          /\ stack' = SetTop(t, [f EXCEPT !.pc = "run"])
          /\ UNCHANGED <<graphs, cells, calls>>

\* The items of todo a thread may start next: the next sub-query of a
\* sequential resolver; any item of a par_iter, unless `any` already has its
\* answer.
Startable(g, k) ==
  LET c == ctx[g][k] IN
  IF c.phase = "validate" THEN (IF c.any_changed THEN {} ELSE 1..Len(c.todo))
  ELSE IF c.phase = "run"
       THEN (IF IsPar(graphs[g].resolver, k) THEN 1..Len(c.todo)
             ELSE IF c.pending = 0 /\ c.todo # <<>> THEN {1} ELSE {})
       ELSE {}

\* The context of (g, k) and the history after item i of todo is started.
Started(g, k, i) ==
  [ctx EXCEPT ![g][k].todo = RemoveAt(@, i), ![g][k].pending = @ + 1]

StartedHist(g, k, i) ==
  IF ctx[g][k].phase = "run"
  THEN [hist EXCEPT ![g][k].queried = @ \cup {ctx[g][k].todo[i]}]
  ELSE hist

ItemFrame(g, k, i) ==
  Frame(DemandGraph(g), ctx[g][k].todo[i],
        IF ctx[g][k].phase = "validate" THEN "val" ELSE "sub", k)

\* The thread running resolve(k) demands a parent (validation) or makes a
\* sub-query through the context (resolver) itself.
CallItem(t, i) ==
  /\ stack[t] # <<>>
  /\ Top(t).pc \in {"validate", "run"}
  /\ i \in Startable(Top(t).g, Top(t).k)
  /\ stack' = Push(t, ItemFrame(Top(t).g, Top(t).k, i))
  /\ ctx' = Started(Top(t).g, Top(t).k, i)
  /\ hist' = StartedHist(Top(t).g, Top(t).k, i)
  /\ UNCHANGED <<graphs, cells, calls>>

\* A pool thread takes an item of a par_iter that is under way.
StealItem(h, g, k, i) ==
  /\ stack[h] = <<>>
  /\ \A u \in Helpers : u < h => stack[u] # <<>>
  /\ g \in Live
  /\ ctx[g][k].phase = "validate" \/ IsPar(graphs[g].resolver, k)
  /\ i \in Startable(g, k)
  /\ stack' = Push(h, ItemFrame(g, k, i))
  /\ ctx' = Started(g, k, i)
  /\ hist' = StartedHist(g, k, i)
  /\ UNCHANGED <<graphs, cells, calls>>

\* The par_iter over the old node's parents is over: a parent changed and the
\* resolver is invoked, or none did and the old node is reused.
EndValidate(t) ==
  /\ stack[t] # <<>>
  /\ Top(t).pc = "validate"
  /\ LET f == Top(t)
         c == ctx[f.g][f.k]
     IN
     /\ c.pending = 0
     /\ c.any_changed \/ c.todo = <<>>
     /\ IF c.any_changed
        THEN /\ ctx' = [ctx EXCEPT ![f.g][f.k] = Invocation(f.g, f.k, "E")]
             /\ hist' = [hist EXCEPT ![f.g][f.k].case = "E",
                                     ![f.g][f.k].invoked = Append(@, graphs[f.g].resolver)]
             /\ stack' = SetTop(t, [f EXCEPT !.pc = "run"])
        ELSE /\ ctx' = [ctx EXCEPT ![f.g][f.k].node = ReusedNode(OldCell(f.g, f.k)),
                                   ![f.g][f.k].phase = "built"]
             /\ hist' = [hist EXCEPT ![f.g][f.k].case = "D"]
             /\ stack' = SetTop(t, [f EXCEPT !.pc = "built"])
     /\ UNCHANGED <<graphs, cells, calls>>

\* The resolver returns: the node is built from its result, the old entry
\* and the context's edge set (edges_from.take()).
EndRun(t) ==
  /\ stack[t] # <<>>
  /\ Top(t).pc = "run"
  /\ LET f == Top(t)
         c == ctx[f.g][f.k]
     IN
     /\ c.pending = 0
     /\ c.todo = <<>>
     /\ ctx' = [ctx EXCEPT ![f.g][f.k].node =
                             ResolvedNode(c.case, Compute(graphs[f.g].resolver, f.k, c.acc),
                                          c.edges_from, OldCell(f.g, f.k)),
                           ![f.g][f.k].phase = "built"]
     /\ stack' = SetTop(t, [f EXCEPT !.pc = "built"])
     /\ UNCHANGED <<graphs, cells, hist, calls>>

\* get_or_init stores the node resolve returned, and the call returns.
Publish(t) ==
  /\ stack[t] # <<>>
  /\ Top(t).pc = "built"
  /\ LET f == Top(t)
         n == ctx[f.g][f.k].node
         old == OldCell(f.g, f.k)
     IN
     /\ cells' = [cells EXCEPT ![NewMap(f.g)][f.k] =
                    [st |-> "init", result |-> n.result, changed |-> n.changed,
                     edges_from |-> n.edges_from]]
     /\ Return(t, n, [ctx EXCEPT ![f.g][f.k] = NoCtx],
               [hist EXCEPT ![f.g][f.k].pub_old_init = (old.st = "init"),
                            ![f.g][f.k].pub_old_result = old.result])
     /\ UNCHANGED <<graphs, calls>>

\* QueryResolver::query, after graph.query returned: borrow_mut() hands out
\* the edge set.  The RefCell is shared between the workers of a resolver
\* (unsafe impl Sync) and its borrow flag and the set are plain memory, so
\* two workers can hold the set at once.
BorrowMut(t) ==
  /\ stack[t] # <<>>
  /\ Top(t).pc = "borrow_mut"
  /\ stack' = SetTop(t, [Top(t) EXCEPT !.pc = "insert",
                                       !.tmp = ctx[Top(t).g][Top(t).pk].edges_from])
  /\ UNCHANGED <<graphs, cells, ctx, hist, calls>>

\* insert(q) writes the set back, and query hands the result to the resolver.
Insert(t) ==
  /\ stack[t] # <<>>
  /\ Top(t).pc = "insert"
  /\ LET f == Top(t) IN
     /\ ctx' = [ctx EXCEPT ![f.g][f.pk].edges_from = ContextInsert(f.tmp, f.k),
                           ![f.g][f.pk].acc = @ + cells[NewMap(f.g)][f.k].result,
                           ![f.g][f.pk].pending = @ - 1]
     /\ stack' = Pop(t)
  /\ UNCHANGED <<graphs, cells, hist, calls>>

\* -------------------------------------------------------------- the system
InitWith(r) ==
  /\ graphs = <<[old |-> 0, resolver |-> r, had |-> {}]>>
  /\ cells = [m \in Graphs |-> [k \in Keys |-> NoCell]]
  /\ stack = [t \in Tasks |-> <<>>]
  /\ ctx = [g \in Graphs |-> [k \in Keys |-> NoCtx]]
  /\ hist = [g \in Graphs |-> [k \in Keys |-> NoHist]]
  /\ calls = 0

\* C: the client threads that call query; n: the calls they make in all;
\* R: the resolvers handed to increment.
NextWith(C, n, R) ==
  \/ \E t \in C, g \in Graphs, k \in Keys : ClientQuery(t, g, k, n)
  \/ \E g \in Graphs, r \in R : Increment(g, r, MaxChain)
  \/ \E t \in Tasks : GetNode(t)
  \/ \E t \in Tasks : GetOrInit(t)
  \/ \E t \in Tasks : Resolve(t)
  \/ \E t \in Tasks, i \in 1..2 : CallItem(t, i)
  \/ \E h \in Helpers, g \in Graphs, k \in Keys, i \in 1..2 : StealItem(h, g, k, i)
  \/ \E t \in Tasks : EndValidate(t)
  \/ \E t \in Tasks : EndRun(t)
  \/ \E t \in Tasks : Publish(t)
  \/ \E t \in Tasks : BorrowMut(t)
  \/ \E t \in Tasks : Insert(t)

\* Resolvers that differ in the leaf FooBar(1) only and query sequentially,
\* and the same with Bar's sub-queries made from a par_iter.
SeqResolvers == {r \in Resolvers : ~r.par /\ r.shape = "S1"}
ParResolvers == {r \in Resolvers : r.par /\ r.shape = "S1"}
\* Sequential resolvers in which Bar asks for Foo.
RevResolvers == {r \in Resolvers : ~r.par /\ r.shape = "Rev"}

\* Client threads query concurrently; sequential resolvers.
Init == InitWith([leaf |-> 1, par |-> FALSE, shape |-> "S1"])
Next == NextWith(Clients, MaxCalls, SeqResolvers)
Spec == Init /\ [][Next]_vars

\* One client thread makes all the calls; sequential resolvers.
NextSeq == NextWith({1}, SeqCalls, SeqResolvers)
SpecSeq == Init /\ [][NextSeq]_vars

\* One client thread; Bar's resolver queries its leaves from a par_iter.
InitPar == InitWith([leaf |-> 1, par |-> TRUE, shape |-> "S1"])
NextPar == NextWith({1}, SeqCalls, ParResolvers)
SpecPar == InitPar /\ [][NextPar]_vars

\* The steps of the threads that are inside a call.
Work ==
  \/ \E t \in Tasks : GetNode(t)
  \/ \E t \in Tasks : GetOrInit(t)
  \/ \E t \in Tasks : Resolve(t)
  \/ \E t \in Tasks, i \in 1..2 : CallItem(t, i)
  \/ \E h \in Helpers, g \in Graphs, k \in Keys, i \in 1..2 : StealItem(h, g, k, i)
  \/ \E t \in Tasks : EndValidate(t)
  \/ \E t \in Tasks : EndRun(t)
  \/ \E t \in Tasks : Publish(t)
  \/ \E t \in Tasks : BorrowMut(t)
  \/ \E t \in Tasks : Insert(t)

\* Sibling iterations: a client resolves Foo, and with it every key, on the
\* first iteration; the first iteration is then incremented, each time with
\* its own resolver, and the client threads query the successors
\* concurrently.  A thread that can take a step is scheduled sooner or later.
NextSib ==
  \/ \E t \in Clients : ClientQuery(t, 1, "Foo", 1)
  \/ cells[1]["Foo"].st = "init" /\ Increment(1, graphs[1].resolver, MaxGraphs)
  \/ \E t \in Clients, g \in Graphs \ {1}, k \in Keys : ClientQuery(t, g, k, SibCalls)
  \/ Work
SpecSib == Init /\ [][NextSib]_vars /\ WF_vars(Work)

\* One client thread; increment hands over a resolver of either shape, so the
\* sub-query structure can differ between iterations.  A thread that can take
\* a step is scheduled sooner or later.
NextShape == NextWith({1}, SeqCalls, SeqResolvers \cup RevResolvers)
SpecShape == Init /\ [][NextShape]_vars /\ WF_vars(Work)

\* One client thread; a chain of iterations, each made by increment from the
\* newest one.
NextChain ==
  \/ \E g \in Graphs, k \in Keys : ClientQuery(1, g, k, SeqCalls)
  \/ \E r \in SeqResolvers : Increment(Len(graphs), r, MaxGraphs)
  \/ Work
SpecChain == Init /\ [][NextChain]_vars

\* ------------------------------------------------------------------ claims
\* The resolver invocations made so far through graph g for key k.
Invocations(g, k) == Len(hist[g][k].invoked)

\* Some thread waits in get_or_init for the node of (g, k) while another
\* thread's resolve(k) runs.
Contended(g, k) ==
  /\ cells[g][k].st = "running"
  /\ \E t \in Tasks : /\ stack[t] # <<>>
                      /\ Top(t).g = g /\ Top(t).k = k /\ Top(t).pc = "get_or_init"

\* C1 as stated: the resolver of an iteration is invoked never more than once
\* for a key, and exactly once for every key whose node has been produced.
C1_ExactlyOnceIfDemanded ==
  \A g \in Graphs, k \in Keys :
    /\ Invocations(g, k) <= 1
    /\ cells[g][k].st = "init" => Invocations(g, k) = 1

\* C1 as amended: under every interleaving the resolver of an iteration is
\* invoked at most once for a key; for a key whose node has been produced it
\* was invoked exactly once, unless the node was reused from the previous
\* iteration (no parent changed), and then it was not invoked at all.
C1_AtMostOnce ==
  \A g \in Graphs, k \in Keys :
    /\ Invocations(g, k) <= 1
    /\ cells[g][k].st = "init" =>
         Invocations(g, k) = (IF hist[g][k].case = "D" THEN 0 ELSE 1)

\* The resolver has been invoked for a key of the second iteration while a
\* second thread waits for the same node.
C1_Witness ==
  \E k \in Keys : Contended(2, k) /\ Invocations(2, k) = 1

\* C2: every call of query(k) on iteration g returned the same value, the
\* result of the node stored for k in g's current map.
C2_SameResult ==
  \A g \in Graphs, k \in Keys :
    hist[g][k].returned # {} =>
      /\ cells[g][k].st = "init"
      /\ hist[g][k].returned = {cells[g][k].result}

\* After an increment, a client calls query again for a key of the first
\* iteration whose result an earlier call has returned.
C2_Witness ==
  /\ Len(graphs) = 2
  /\ \E t \in Clients :
       /\ stack[t] # <<>>
       /\ Top(t).role = "client" /\ Top(t).g = 1 /\ Top(t).pc = "get_or_init"
       /\ hist[1][Top(t).k].returned # {}

\* Every resolver invocation made through graph g used g's own resolver.
OwnResolver ==
  \A g \in Live, k \in Keys :
    \A i \in 1..Len(hist[g][k].invoked) : hist[g][k].invoked[i] = graphs[g].resolver

\* All the calls a thread is in are calls on one graph: a query never
\* continues on another iteration.
SameGraphStack ==
  \A t \in Tasks : \A i \in 1..Len(stack[t]) : stack[t][i].g = stack[t][1].g

\* Only the thread that took an empty cell is in resolve for it.
ResolvingOnlyTaken ==
  \A t \in Tasks : \A i \in 1..Len(stack[t]) :
    stack[t][i].pc \in {"resolve", "validate", "run", "built"} =>
      cells[stack[t][i].g][stack[t][i].k].st = "running"

\* A node of an iteration that has a successor stays as it is, and no
\* resolver is invoked for its key again.
IsolationStep ==
  \A g \in Live, k \in Keys :
    ((\E n \in Live : graphs[n].old = g) /\ cells[g][k].st = "init") =>
      /\ cells'[g][k] = cells[g][k]
      /\ hist'[g][k].invoked = hist[g][k].invoked

\* C3: once G' = G.increment(r') exists, whatever is queried on G', a key
\* resolved in G keeps its node and result and no resolver is invoked for it
\* again; a call on G stays on G (it never enters resolve for a resolved key,
\* never continues on G'), and every invocation made through G uses G's
\* resolver.
C3_Isolation ==
  /\ []OwnResolver
  /\ []SameGraphStack
  /\ []ResolvingOnlyTaken
  /\ [][IsolationStep]_vars

\* After the second iteration produced a node with another resolver, a call
\* on the first iteration reaches a key resolved there, and another one
\* resolves a key that was not.
C3_Witness ==
  /\ Len(graphs) = 2
  /\ graphs[2].resolver # graphs[1].resolver
  /\ \E k \in Keys : cells[2][k].st = "init"
  /\ \E t \in Tasks :
       /\ stack[t] # <<>>
       /\ Top(t).g = 1 /\ Top(t).pc = "get_or_init" /\ cells[1][Top(t).k].st = "init"
       /\ Len(stack[t]) > 1 /\ stack[t][1].g = 1 /\ stack[t][1].pc = "run"

\* The value resolver r computes for k when nothing is memoized: the
\* resolver applied to the from-scratch results of its sub-queries.
RECURSIVE FromScratch(_, _)
RECURSIVE FromScratchSum(_, _)
FromScratchSum(r, ks) ==
  IF ks = <<>> THEN 0 ELSE FromScratch(r, Head(ks)) + FromScratchSum(r, Tail(ks))
FromScratch(r, k) == Compute(r, k, FromScratchSum(r, Deps(r, k)))

\* C4: the resolvers are deterministic, Foo and Bar are functions of their
\* sub-query results and the same in all iterations, and iterations differ in
\* the leaf FooBar(1) only; then every node of every iteration holds the
\* result its iteration's resolver computes from scratch.
C4_IncrementalEqualsFromScratch ==
  \A g \in Live, k \in Keys :
    cells[g][k].st = "init" => cells[g][k].result = FromScratch(graphs[g].resolver, k)

\* The keys reachable from the set S along the edges_from of the nodes of
\* map m.
RECURSIVE Reach(_, _)
Reach(m, S) ==
  LET T == S \cup UNION {MapGet(m, x).edges_from : x \in S} IN
  IF T = S THEN S ELSE Reach(m, T)

\* No key in the transitive closure of the previous node's edges_from has
\* changed == true in g.
NoneChangedAbove(g, k) ==
  \A p \in Reach(graphs[g].old, OldCell(g, k).edges_from) : ~cells[g][p].changed

\* C5 as stated: when the previous map holds a node for k and no key in the
\* closure of its edges has changed in g, the node of k in g holds the
\* previous result and the resolver was not invoked for k.
C5_ReuseWheneverPreviousNode ==
  \A g \in Live, k \in Keys :
    (OldCell(g, k).st = "init" /\ cells[g][k].st = "init" /\ NoneChangedAbove(g, k)) =>
      /\ cells[g][k].result = OldCell(g, k).result
      /\ Invocations(g, k) = 0

\* C5 as amended: when g's resolve(k) found the previous node initialized
\* with a non-empty edges_from, and no key in the closure of these edges has
\* changed in g, the node of k in g holds the previous result and the
\* resolver was not invoked for k.  (A previous node without edges is
\* recomputed; a previous node that appears later is not looked at.)
C5_ReuseInvariant ==
  \A g \in Live, k \in Keys :
    (cells[g][k].st = "init" /\ hist[g][k].case \in {"D", "E"} /\ NoneChangedAbove(g, k)) =>
      /\ cells[g][k].result = OldCell(g, k).result
      /\ Invocations(g, k) = 0

\* Foo was reused in the second iteration: its previous node has edges, and
\* nothing in their closure (Bar and the leaves) changed.
C5_Witness ==
  /\ Len(graphs) = 2
  /\ cells[2]["Foo"].st = "init"
  /\ hist[2]["Foo"].case = "D"
  /\ Reach(1, OldCell(2, "Foo").edges_from) = {"Bar", "FooBar0", "FooBar1"}
  /\ NoneChangedAbove(2, "Foo")

\* C6: a node with changed == false, published while the previous map held
\* an initialized node for its key, holds the result of that previous node.
C6_ChangeFlagSound ==
  \A g \in Live, k \in Keys :
    (cells[g][k].st = "init" /\ ~cells[g][k].changed /\ hist[g][k].pub_old_init) =>
      cells[g][k].result = hist[g][k].pub_old_result

\* The keys of a sequence of sub-queries.
Range(s) == {s[i] : i \in 1..Len(s)}

\* C7: a node produced by an invocation of a resolver that calls its context
\* sequentially has as edges_from exactly the keys the invocation called
\* context.query on, which are the keys its resolver asks for: duplicates
\* collapsed, and empty when the resolver made no sub-query.
C7_EdgeSetFaithful ==
  \A g \in Live, k \in Keys :
    (cells[g][k].st = "init" /\ Invocations(g, k) = 1) =>
      /\ cells[g][k].edges_from = hist[g][k].queried
      /\ hist[g][k].queried = Range(Deps(graphs[g].resolver, k))

\* Foo, which asks for Bar twice, Bar, which asks for two leaves, and a leaf
\* have been resolved by invocations in the second iteration.
C7_Witness ==
  /\ Len(graphs) = 2
  /\ \A k \in {"Foo", "Bar", "FooBar0"} : cells[2][k].st = "init" /\ Invocations(2, k) = 1
  /\ cells[2]["Foo"].edges_from = {"Bar"}
  /\ cells[2]["Bar"].edges_from = {"FooBar0", "FooBar1"}
  /\ cells[2]["FooBar0"].edges_from = {}

\* C8: when a resolver invocation queries its context from several workers
\* at once, the edges_from of the node it produces is the union of the keys
\* all workers queried.
C8_ConcurrentEdgesUnion ==
  \A g \in Live, k \in Keys :
    (IsPar(graphs[g].resolver, k) /\ cells[g][k].st = "init" /\ Invocations(g, k) = 1) =>
      cells[g][k].edges_from = hist[g][k].queried

\* k and the keys above it in the previous map: what query(k) can demand
\* when it validates the previous node of k.
Cone(g, k) == {k} \cup Reach(graphs[g].old, OldCell(g, k).edges_from)

\* G1 = G0.increment(r) with r the resolver of G0, made when G0 held the node
\* of k, and G1 holds the node of k.
NoOpIncrementDone(k) ==
  /\ Len(graphs) = 2
  /\ graphs[2].resolver = graphs[1].resolver
  /\ k \in graphs[2].had
  /\ cells[2][k].st = "init"

\* C9 as stated: after a no-op increment, G1.query(k) returns the result of
\* G0.query(k) and the resolver is invoked for no key.
C9_NoOpIncrementNoInvocation ==
  \A k \in Keys :
    NoOpIncrementDone(k) =>
      /\ cells[2][k].result = cells[1][k].result
      /\ \A j \in Cone(2, k) : Invocations(2, j) = 0

\* C9 as amended: after a no-op increment, G1.query(k) returns the result of
\* G0.query(k); the resolver is invoked only for the keys whose previous node
\* has an empty edges_from (roots are recomputed), never for a key whose
\* previous node has edges, and no node of G1 is flagged changed.
C9_NoOpIncrement ==
  \A k \in Keys :
    NoOpIncrementDone(k) =>
      /\ cells[2][k].result = cells[1][k].result
      /\ \A j \in Cone(2, k) :
           /\ Invocations(2, j) # 0 => OldCell(2, j).edges_from = {}
           /\ ~cells[2][j].changed

\* Foo was fully resolved before a no-op increment and has been queried on
\* the new iteration, which recomputed the leaves.
C9_Witness ==
  /\ NoOpIncrementDone("Foo")
  /\ Invocations(2, "FooBar0") = 1
  /\ Invocations(2, "FooBar1") = 1

\* g's resolve(k) found the previous node of k initialized with edges.
ValidatedAtLookup(g, k) == hist[g][k].case \in {"D", "E"}

\* Every key of the previous edges_from of f has a node in g with
\* changed == false.
ParentsUnchanged(g, f) ==
  \A p \in OldCell(g, f).edges_from : cells[g][p].st = "init" /\ ~cells[g][p].changed

\* b was recomputed in g because a parent changed, and the result equals the
\* previous result.
CutOff(g, b) ==
  /\ cells[g][b].st = "init"
  /\ hist[g][b].case = "E"
  /\ cells[g][b].result = OldCell(g, b).result

\* C10 as stated: when b is cut off, b.changed == false and every key that
\* has a previous node whose edges_from holds only unchanged keys has its
\* node reused, with no resolver invocation.
C10_CutoffReusesEveryKey ==
  \A g \in Live, b \in Keys :
    CutOff(g, b) =>
      /\ ~cells[g][b].changed
      /\ \A f \in Keys :
           (OldCell(g, f).st = "init" /\ cells[g][f].st = "init" /\ ParentsUnchanged(g, f)) =>
             (Invocations(g, f) = 0 /\ hist[g][f].case = "D")

\* C10 as amended: when b is cut off, b.changed == false and every key f
\* whose previous node was initialized with a non-empty edges_from when g
\* looked f up, and whose previous edges_from holds only keys with
\* changed == false in g, has its node reused, with no resolver invocation.
C10_EarlyCutoff ==
  \A g \in Live, b \in Keys :
    CutOff(g, b) =>
      /\ ~cells[g][b].changed
      /\ \A f \in Keys :
           (cells[g][f].st = "init" /\ ValidatedAtLookup(g, f) /\ ParentsUnchanged(g, f)) =>
             (Invocations(g, f) = 0 /\ hist[g][f].case = "D")

\* The leaf FooBar(1) changed, Bar was recomputed to its previous result, and
\* Foo was reused.
C10_Witness ==
  /\ Len(graphs) = 2
  /\ cells[2]["FooBar1"].st = "init" /\ cells[2]["FooBar1"].changed
  /\ CutOff(2, "Bar")
  /\ cells[2]["Foo"].st = "init" /\ hist[2]["Foo"].case = "D"

\* g was made by increment from the first iteration, with the first
\* iteration's resolver, when the first iteration held a node for every key.
Sibling(g) ==
  /\ g \in Live
  /\ graphs[g].old = 1
  /\ graphs[g].resolver = graphs[1].resolver
  /\ graphs[g].had = Keys

\* In a sibling iteration a node holds the result of the first iteration's
\* node, and the resolver was invoked for its key only if the previous node
\* has an empty edges_from.
SiblingsReuse ==
  \A g \in Graphs, k \in Keys :
    (Sibling(g) /\ cells[g][k].st = "init") =>
      /\ cells[g][k].result = cells[1][k].result
      /\ Invocations(g, k) # 0 => (OldCell(g, k).st = "init" /\ OldCell(g, k).edges_from = {})

\* C11: in every sibling iteration made from a fully resolved first iteration
\* with the same resolver, whatever the interleaving of the threads querying
\* the siblings, every call of query completes, a node holds the result of
\* the first iteration's node, and the resolver is invoked only for keys whose
\* previous node has an empty edges_from.
C11_SiblingsReuse ==
  /\ []SiblingsReuse
  /\ \A t \in Clients : (stack[t] # <<>>) ~> (stack[t] = <<>>)

\* Two siblings are queried for Foo at once: in one the node of Foo has been
\* built, reused, with the leaves recomputed, while the other validates Foo.
C11_Witness ==
  /\ Sibling(2) /\ Sibling(3)
  /\ \E t, u \in Clients :
       /\ stack[t] # <<>> /\ stack[u] # <<>>
       /\ Top(t).g = 2 /\ Top(t).k = "Foo" /\ Top(t).pc = "built"
       /\ hist[2]["Foo"].case = "D"
       /\ Invocations(2, "FooBar0") = 1 /\ Invocations(2, "FooBar1") = 1
       /\ stack[u][1].g = 3 /\ stack[u][1].k = "Foo" /\ stack[u][1].pc = "validate"

\* The calls of thread t below its innermost one.
Outer(t) == 1..(Len(stack[t]) - 1)

\* No thread waits in get_or_init for a cell whose initializer, resolve, is
\* one of its own outer calls.
NoSelfWait ==
  \A t \in Tasks :
    (stack[t] # <<>> /\ Top(t).pc = "get_or_init"
       /\ cells[NewMap(Top(t).g)][Top(t).k].st = "running") =>
      \A i \in Outer(t) :
        ~(/\ stack[t][i].g = Top(t).g /\ stack[t][i].k = Top(t).k
          /\ stack[t][i].pc \in {"resolve", "validate", "run", "built"})

\* C12: every resolver is total and its sub-query relation acyclic (both
\* shapes are); then under any increments, also with a resolver of the other
\* shape, and any fair interleaving, every call of query returns, and no
\* thread waits on a cell it is itself initializing.
C12_EveryQueryReturns ==
  /\ []NoSelfWait
  /\ \A t \in Tasks : (stack[t] # <<>>) ~> (stack[t] = <<>>)

\* A step that adds an iteration: its previous map is the current map of an
\* iteration that existed, its current map holds no cell, and the step
\* changes no map, no iteration that existed, no thread, and invokes no
\* resolver.
IncrementStep ==
  Len(graphs') # Len(graphs) =>
    /\ Len(graphs') = Len(graphs) + 1
    /\ SubSeq(graphs', 1, Len(graphs)) = graphs
    /\ \E g \in Live : graphs'[Len(graphs')].old = g
    /\ \A k \in Keys : cells'[Len(graphs')][k].st = "absent"
    /\ UNCHANGED <<cells, stack, ctx, hist>>

\* A step in which resolve(k) of iteration g looks k up: it takes the branch
\* of the entry that the current map of g's predecessor holds at that moment,
\* whether the entry got there before or after g was made.
LookupStep ==
  \A g \in Live, k \in Keys :
    (hist[g][k].case = "-" /\ hist'[g][k].case # "-" /\ graphs[g].old # 0) =>
      LET st == cells[graphs[g].old][k].st IN
      /\ st = "absent" <=> hist'[g][k].case = "A"
      /\ st \in {"empty", "running"} <=> hist'[g][k].case = "B"
      /\ st = "init" <=> hist'[g][k].case \in {"C", "DE"}

\* increment can be called on every iteration in every state: it waits for
\* no cell and no thread.
IncrementNeverWaits ==
  \A g \in Live :
    Len(graphs) < MaxChain => ENABLED Increment(g, graphs[g].resolver, MaxChain)

\* C13: increment returns an iteration with an empty current map whose
\* previous map is the prior iteration's current map itself, so that a key
\* resolved in the prior iteration after the increment is found as a previous
\* node; it invokes no resolver, waits on nothing, also while resolutions
\* are in flight, and leaves the prior iteration as it was.
C13_IncrementFrame ==
  /\ [][IncrementStep /\ LookupStep]_vars
  /\ []IncrementNeverWaits

\* increment ran while a resolution was in flight in the first iteration;
\* Bar, resolved there afterwards, was found by the second iteration as a
\* previous node.
C13_Witness ==
  /\ Len(graphs) = 2
  /\ graphs[2].had # {}
  /\ "Bar" \notin graphs[2].had
  /\ hist[2]["Bar"].case \in {"DE", "D", "E"}

\* How far a cell is: no entry, an OnceLock without a node (nobody or
\* somebody initializing it), an OnceLock with its node.
Rank(st) == CASE st = "absent" -> 0 [] st = "empty" -> 1 [] st = "running" -> 2 [] OTHER -> 3

\* A step leaves a cell that holds a node as it is, never takes a cell back,
\* and a cell without a node shows none.
WriteOnceStep ==
  \A m \in Graphs, k \in Keys :
    /\ cells[m][k].st = "init" => cells'[m][k] = cells[m][k]
    /\ Rank(cells'[m][k].st) >= Rank(cells[m][k].st)
    /\ cells'[m][k].st # "init" =>
         [result |-> cells'[m][k].result, changed |-> cells'[m][k].changed,
          edges_from |-> cells'[m][k].edges_from] = NoNode

\* C14: a cell of an iteration map goes from uninitialized to initialized at
\* most once, and once it holds a node, result, changed and edges_from stay
\* the same in every later state, whatever is queried or incremented.
C14_WriteOnce == [][WriteOnceStep]_vars

\* In the second iteration a resolver asks again for a key whose node it has
\* already been handed.
C14_Witness ==
  /\ Len(graphs) = 2
  /\ \E t \in Tasks :
       /\ stack[t] # <<>>
       /\ Top(t).g = 2 /\ Top(t).role = "sub" /\ Top(t).pc = "get_or_init"
       /\ cells[2][Top(t).k].st = "init"
       /\ hist[2][Top(t).k].returned # {}

\* resolve(k) of iteration g looks k up in this step.
LooksUp(g, k) == hist[g][k].case = "-" /\ hist'[g][k].case # "-"

\* A lookup that finds no cell for k in the previous map invokes g's
\* resolver for k with a context that has recorded nothing.
CaseAStep ==
  \A g \in Live, k \in Keys :
    (LooksUp(g, k) /\ MapGet(graphs[g].old, k).st = "absent") =>
      /\ hist'[g][k].case = "A"
      /\ hist'[g][k].invoked = <<graphs[g].resolver>>
      /\ ctx'[g][k].phase = "run" /\ ctx'[g][k].edges_from = {}

\* A node made after such a lookup has changed == false and was produced by
\* one invocation; so was every node of a first iteration.
CaseANodes ==
  \A g \in Live, k \in Keys :
    cells[g][k].st = "init" =>
      /\ hist[g][k].case = "A" =>
           /\ ~cells[g][k].changed
           /\ Invocations(g, k) = 1
      /\ graphs[g].old = 0 => (hist[g][k].case = "A" /\ ~cells[g][k].changed)

\* C15: when the previous map holds no cell for k as resolve(k) looks it up,
\* the resolver is invoked for k through a fresh context and the node
\* published has changed == false; every node of a first iteration has
\* changed == false.
C15_CaseA == [][CaseAStep]_vars /\ []CaseANodes

\* The second iteration resolved Bar when the first had no cell for it; the
\* first iteration holds a node for Bar by now.
C15_Witness ==
  /\ Len(graphs) = 2
  /\ cells[2]["Bar"].st = "init"
  /\ hist[2]["Bar"].case = "A"
  /\ cells[1]["Bar"].st = "init"

\* A lookup that finds a cell without a node for k in the previous map
\* invokes g's resolver for k with a context that has recorded nothing.
CaseBLookupStep ==
  \A g \in Live, k \in Keys :
    (LooksUp(g, k) /\ MapGet(graphs[g].old, k).st \in {"empty", "running"}) =>
      /\ hist'[g][k].case = "B"
      /\ hist'[g][k].invoked = <<graphs[g].resolver>>
      /\ ctx'[g][k].phase = "run" /\ ctx'[g][k].edges_from = {}

\* The step in which the resolver invoked after such a lookup returns: the
\* previous cell is read as it is now; changed is whether the results
\* differ if it holds a node, and true if it holds none.
CaseBBuildStep ==
  \A g \in Live, k \in Keys :
    (hist[g][k].case = "B" /\ ctx[g][k].phase = "run" /\ ctx'[g][k].phase = "built") =>
      LET prev == cells[graphs[g].old][k] IN
      ctx'[g][k].node.changed =
        (IF prev.st = "init" THEN ctx'[g][k].node.result # prev.result ELSE TRUE)

\* The step that initializes a cell stores the node that was built.
StoreStep ==
  \A g \in Live, k \in Keys :
    (cells[g][k].st # "init" /\ cells'[g][k].st = "init") =>
      /\ cells'[g][k].result = ctx[g][k].node.result
      /\ cells'[g][k].changed = ctx[g][k].node.changed
      /\ cells'[g][k].edges_from = ctx[g][k].node.edges_from

\* C16: when the previous map holds a cell for k that is uninitialized as
\* resolve(k) looks it up, the resolver is invoked for k from scratch; when it
\* has returned the previous cell is read again, and changed is set to
\* whether the results differ if the cell is initialized by then, to true if
\* it is not.
C16_CaseB == [][CaseBLookupStep /\ CaseBBuildStep /\ StoreStep]_vars

\* Bar was resolved in the second iteration after a lookup that found the
\* previous cell uninitialized; the cell was initialized, with the same
\* result, when the resolver returned.
C16_Witness ==
  /\ Len(graphs) = 2
  /\ cells[2]["Bar"].st = "init"
  /\ hist[2]["Bar"].case = "B"
  /\ ~cells[2]["Bar"].changed

\* A lookup that finds a previous node without edges invokes g's resolver
\* for k with a context that has recorded nothing.
CaseCLookupStep ==
  \A g \in Live, k \in Keys :
    (LooksUp(g, k) /\ MapGet(graphs[g].old, k).st = "init"
       /\ MapGet(graphs[g].old, k).edges_from = {}) =>
      /\ hist'[g][k].case = "C"
      /\ hist'[g][k].invoked = <<graphs[g].resolver>>
      /\ ctx'[g][k].phase = "run" /\ ctx'[g][k].edges_from = {}

\* In the step in which the resolver invoked for (g, k) returns, the node
\* gets the edge set the invocation's context holds.
TakesRecordedEdges(g, k) ==
  (ctx[g][k].phase = "run" /\ ctx'[g][k].phase = "built") =>
    ctx'[g][k].node.edges_from = ctx[g][k].edges_from

CaseCBuildStep ==
  \A g \in Live, k \in Keys : hist[g][k].case = "C" => TakesRecordedEdges(g, k)

\* The lookup of resolve(k) in g found a previous node (a cell that holds a
\* node keeps it, so the node found is the one the previous map holds now).
FoundPrevious(g, k) == hist[g][k].case \notin {"-", "A", "B"}

\* A node made after a lookup that found a previous node without edges: the
\* resolver was invoked once, and changed tells whether the result differs
\* from the previous one.
CaseCNodes ==
  \A g \in Live, k \in Keys :
    (cells[g][k].st = "init" /\ FoundPrevious(g, k) /\ OldCell(g, k).edges_from = {}) =>
      /\ Invocations(g, k) = 1
      /\ cells[g][k].changed = (cells[g][k].result # OldCell(g, k).result)

\* C17: when the previous node of k is initialized with an empty edges_from,
\* the resolver is always invoked for k, changed is true exactly when the new
\* result differs from the previous one, and edges_from is the set the new
\* invocation recorded.
C17_CaseC == [][CaseCLookupStep /\ CaseCBuildStep]_vars /\ []CaseCNodes

\* Both leaves were recomputed in the second iteration: FooBar(1) changed,
\* FooBar(0) did not.
C17_Witness ==
  /\ Len(graphs) = 2
  /\ cells[2]["FooBar1"].st = "init" /\ hist[2]["FooBar1"].case = "C"
  /\ cells[2]["FooBar1"].changed
  /\ cells[2]["FooBar0"].st = "init" /\ hist[2]["FooBar0"].case = "C"
  /\ ~cells[2]["FooBar0"].changed

\* Some key of the previous edges_from of k has a node in g with
\* changed == true.
SomeParentChanged(g, k) ==
  \E p \in OldCell(g, k).edges_from : cells[g][p].st = "init" /\ cells[g][p].changed

\* A node made after a lookup that found a previous node with edges: the
\* resolver was invoked for k exactly if a parent changed; without a changed
\* parent the node is the previous one with changed == false, and every
\* parent has an unchanged node; with one, changed tells whether the result
\* differs from the previous.
CaseDENodes ==
  \A g \in Live, k \in Keys :
    (cells[g][k].st = "init" /\ FoundPrevious(g, k) /\ OldCell(g, k).edges_from # {}) =>
      /\ Invocations(g, k) = (IF SomeParentChanged(g, k) THEN 1 ELSE 0)
      /\ ~SomeParentChanged(g, k) =>
           /\ cells[g][k].result = OldCell(g, k).result
           /\ cells[g][k].edges_from = OldCell(g, k).edges_from
           /\ ~cells[g][k].changed
           /\ ParentsUnchanged(g, k)
      /\ SomeParentChanged(g, k) =>
           cells[g][k].changed = (cells[g][k].result # OldCell(g, k).result)

\* The step in which a resolver invoked because a parent changed returns:
\* the node holds the result it computed from its sub-queries' results and
\* the edges its context recorded.
CaseEBuildStep ==
  \A g \in Live, k \in Keys :
    hist[g][k].case = "E" =>
      /\ TakesRecordedEdges(g, k)
      /\ (ctx[g][k].phase = "run" /\ ctx'[g][k].phase = "built") =>
           ctx'[g][k].node.result = Compute(graphs[g].resolver, k, ctx[g][k].acc)

\* C18: when the previous node of k is initialized with a non-empty
\* edges_from, the resolver is invoked for k if and only if a key of the
\* previous edges_from has changed == true in g; if none has, the node copies
\* the previous result and edges with changed == false; if one has, the node
\* holds the recomputed result and the newly recorded edges, and changed is
\* true exactly when the result differs from the previous one; in whatever
\* order, and by whichever threads, the parents are checked.
C18_CasesDE == []CaseDENodes /\ [][CaseEBuildStep]_vars

\* In the second iteration the leaf FooBar(1) changed, Bar was recomputed to
\* another result, and so was Foo.
C18_Witness ==
  /\ Len(graphs) = 2
  /\ cells[2]["Bar"].st = "init" /\ hist[2]["Bar"].case = "E" /\ cells[2]["Bar"].changed
  /\ cells[2]["Foo"].st = "init" /\ hist[2]["Foo"].case = "E" /\ cells[2]["Foo"].changed
  /\ cells[2]["FooBar0"].st = "init" /\ ~cells[2]["FooBar0"].changed

\* A step changes the map of an iteration only on behalf of a thread whose
\* client called query on that very iteration, and which takes the step.
OwnMapStep ==
  \A m \in Graphs :
    cells'[m] # cells[m] =>
      \E t \in Tasks :
        /\ stack[t] # <<>>
        /\ stack'[t] # stack[t]
        /\ \A i \in 1..Len(stack[t]) : stack[t][i].g = m

\* C19: no query, resolve or parent validation made on an iteration inserts a
\* cell into its previous map or initializes a cell there; the cells and
\* nodes of an iteration's current map change only through calls of query on
\* that iteration.
C19_PreviousReadOnly == [][OwnMapStep]_vars

\* The second iteration validates the parents of Bar, whose previous node it
\* found, while the first iteration's map is still being filled.
C19_Witness ==
  /\ Len(graphs) = 2
  /\ ctx[2]["Bar"].phase = "validate"
  /\ cells[2]["FooBar1"].st = "init"
  /\ cells[1]["Foo"].st = "running"

\* Every key in the edges_from of a node of map m has a node in m.
EdgeClosure ==
  \A m \in Live, k \in Keys :
    cells[m][k].st = "init" =>
      \A p \in cells[m][k].edges_from : cells[m][p].st = "init"

\* While resolve(k) of g validates the parents of the previous node of k,
\* each parent has a node in the previous map.
ValidationFindsParents ==
  \A g \in Live, k \in Keys :
    ctx[g][k].phase = "validate" =>
      \A p \in OldCell(g, k).edges_from : OldCell(g, p).st = "init"

\* C20: in every reachable state, every key in the edges_from of an
\* initialized node of a map has an initialized cell in the same map, for
\* nodes a resolver invocation produced and for nodes reused from the
\* previous iteration; so parent validation in the next iteration finds each
\* parent's previous cell present and initialized.
C20_EdgeClosure == EdgeClosure /\ ValidationFindsParents

\* The third iteration validates the parents of Bar, whose previous node the
\* second iteration reused from the first.
C20_Witness ==
  /\ Len(graphs) = 3
  /\ cells[2]["Bar"].st = "init" /\ hist[2]["Bar"].case = "D"
  /\ cells[2]["Bar"].edges_from = {"FooBar0", "FooBar1"}
  /\ ctx[3]["Bar"].phase = "validate"

\* The keys resolver r reaches from the keys in S through its sub-queries.
RECURSIVE LiveReach(_, _)
LiveReach(r, S) ==
  LET T == S \cup UNION {Range(Deps(r, x)) : x \in S} IN
  IF T = S THEN S ELSE LiveReach(r, T)

\* C21: while the client thread is in G.query(k), every call made on its
\* behalf (by itself or a pool thread: get_node creating a cell, resolve,
\* a resolver invocation) is for a key that G's resolver reaches from k
\* through its sub-queries; a key found only in a previous node's edges_from
\* is neither resolved nor handed to G's resolver.
C21_OnlyLiveDemanded ==
  stack[1] # <<>> =>
    \A t \in Tasks : \A i \in 1..Len(stack[t]) :
      stack[t][i].k \in LiveReach(graphs[stack[1][1].g].resolver, {stack[1][1].k})

====
